---- MODULE Spec2Model ----
(***************************************************************************)
(* fsync: one-way synchronisation of a local directory tree to an FTP      *)
(* target (src/fsync.py).                                                  *)
(*                                                                         *)
(* Strings are modelled as sequences of character codes, so that len(),    *)
(* the ordering of str, split('/') and Path.parent are computed as Python  *)
(* computes them.  A file system is a set of nodes                         *)
(* [path, kind, size] keyed by the path relative to its root.              *)
(***************************************************************************)
EXTENDS Integers, Sequences, FiniteSets, TLC

VARIABLES
    local,                   \* the source directory tree (set of nodes)
    remote,                  \* the tree below config.target_directory on the target
    config,                  \* Config: source_directory, target_directory
    pc,                      \* position of main()
    pass,                    \* number of the current run of main()
    source_paths,            \* main: source_paths
    target_paths,            \* main: target_paths (nested dict of _list_remote)
    target_paths_converted,  \* main: target_paths_converted
    add,                     \* main: add
    remove,                  \* main: remove
    del_i,                   \* _sync_delete: index of the next path of the loop
    add_i,                   \* _sync_add: index of the next item of the loop
    mk_j,                    \* _sync_add_dir: number of parents already created
    bytes_transferred,       \* _sync_add: bytes_transferred, in thousandths of a byte
    calls,                   \* history: prompts, reports and remote primitive calls of this run
    exit_code,               \* status main() left the process with (-1 while running)
    d_source,                \* _calculate_delta applied alone: source_paths
    d_target,                \* _calculate_delta applied alone: target_paths
    d_result,                \* _calculate_delta applied alone: the returned pair
    d_order,                 \* the order _sync_delete gives the returned delete list
    t_depth,                 \* traversal of a deep tree: number of nested directory levels
    t_leaf,                  \* traversal of a deep tree: the deepest directory holds a file
    t_mlsd,                  \* traversal of a deep tree: frames ftp_session.mlsd needs
    t_level,                 \* traversal of a deep tree: level of the directory being handled
    t_frames                 \* traversal of a deep tree: frames on the interpreter's stack

vars == <<local, remote, config, pc, pass, source_paths, target_paths,
          target_paths_converted, add, remove, del_i, add_i, mk_j,
          bytes_transferred, calls, exit_code, d_source, d_target, d_result, d_order,
          t_depth, t_leaf, t_mlsd, t_level, t_frames>>

(***************************************************************************)
(* Bounds of the model                                                     *)
(***************************************************************************)
\* nodes of one tree; nodes of the local and the remote tree together; runs of main;
\* entries of a list given to _calculate_delta; directory levels of a deep tree; frames
\* the session's mlsd puts on the stack
MaxNodes == 3
MaxTotal == 4
MaxPass == 2
MaxLen == 2
MaxDepth == 200
MaxMlsdFrames == 13

(***************************************************************************)
(* Characters and strings                                                  *)
(***************************************************************************)
Slash == 47
Dot == 46
DIR_SIZE == 4096
EMPTY_FILE_WEIGHT == 1
RECURSION_LIMIT == 200

EmptyStr == <<>>
NameA == <<97>>
NameB == <<98>>
NameFiles == <<102, 105, 108, 101, 115>>
NameHidden == <<46, 104>>
SOURCE_DIRECTORY == <<47, 115>>
TARGET_DIRECTORY == <<47, 116>>

\* str.__lt__: lexicographic order on code points
StrLt(s, t) ==
    \E i \in 1..Len(t) :
        /\ Len(s) >= i - 1
        /\ \A j \in 1..(i - 1) : s[j] = t[j]
        /\ (Len(s) = i - 1 \/ s[i] < t[i])

FirstSlash(s) ==
    LET I == {i \in 1..Len(s) : s[i] = Slash}
    IN  IF I = {} THEN 0 ELSE CHOOSE i \in I : \A j \in I : i <= j

LastSlash(s) ==
    LET I == {i \in 1..Len(s) : s[i] = Slash}
    IN  IF I = {} THEN 0 ELSE CHOOSE i \in I : \A j \in I : j <= i

\* the directory part and the last component of a relative path
DirName(s) == SubSeq(s, 1, LastSlash(s) - 1)
BaseName(s) == SubSeq(s, LastSlash(s) + 1, Len(s))

\* str(Path(s).parent) for a relative path without '.' or '..' components
PathParent(s) == IF LastSlash(s) = 0 THEN <<Dot>> ELSE DirName(s)

\* s.split('/')
RECURSIVE Split(_)
Split(s) ==
    IF FirstSlash(s) = 0 THEN <<s>>
    ELSE <<SubSeq(s, 1, FirstSlash(s) - 1)>> \o Split(SubSeq(s, FirstSlash(s) + 1, Len(s)))

\* f'{a}/{b}'
Join(a, b) == a \o <<Slash>> \o b

(***************************************************************************)
(* File systems                                                            *)
(***************************************************************************)
FileSizes == {0, 1}

FileNode(p, sz) == [path |-> p, kind |-> "file", size |-> sz]
DirNode(p) == [path |-> p, kind |-> "dir", size |-> 0]

PathsOf(fs) == {n.path : n \in fs}
IsDir(fs, p) == \E n \in fs : n.path = p /\ n.kind = "dir"
IsFile(fs, p) == \E n \in fs : n.path = p /\ n.kind = "file"
Exists(fs, p) == p \in PathsOf(fs)
NodeAt(fs, p) == CHOOSE n \in fs : n.path = p
Children(fs, d) == {n \in fs : n.path # EmptyStr /\ DirName(n.path) = d}
ChildPath(d, name) == IF d = EmptyStr THEN name ELSE Join(d, name)

\* what a directory entry of a given name can be
Variants(p, name) ==
    IF name = NameFiles THEN {DirNode(p)}
    ELSE IF name \in {NameHidden, NameB} THEN {FileNode(p, 1)}
    ELSE {FileNode(p, sz) : sz \in FileSizes} \cup {DirNode(p)}

Names == {NameA, NameB, NameFiles, NameHidden}

\* the nodes that can be added to the tree T
Addable(T) ==
    UNION { UNION { Variants(ChildPath(d, name), name) : name \in Names }
            : d \in {EmptyStr} \cup {n.path : n \in {m \in T : m.kind = "dir"}} }

Extensions(T) ==
    {T \cup {x} : x \in {y \in Addable(T) : y.path \notin PathsOf(T)}}

RECURSIVE TreesOfSize(_)
TreesOfSize(n) ==
    IF n = 0 THEN {{}} ELSE UNION {Extensions(T) : T \in TreesOfSize(n - 1)}

Trees == UNION {TreesOfSize(n) : n \in 0..MaxNodes}

\* the orders in which the entries of a tree can be handed out: os.scandir and the
\* listing of a server give the entries of a directory in an order of their own.  Only the
\* order among the entries of one directory is ever used; the directories are kept in
\* path order, so that each combination of directory orders is there once
Orders(fs) ==
    {o \in [1..Cardinality(fs) -> fs] :
        \A i, j \in 1..Cardinality(fs) :
            /\ o[i] = o[j] => i = j
            /\ i < j => \/ DirName(o[i].path) = DirName(o[j].path)
                        \/ StrLt(DirName(o[i].path), DirName(o[j].path))}

\* the nodes of S in the order o
InOrder(S, o) == SelectSeq(o, LAMBDA n : n \in S)

(***************************************************************************)
(* FSyncPath                                                               *)
(***************************************************************************)
FSyncPath(path_type, rel_path, abs_path, size) ==
    [path_type |-> path_type, rel_path |-> rel_path, abs_path |-> abs_path, size |-> size]

\* dataclass __eq__ : the fields with compare=True
FSyncPathEq(x, y) == x.rel_path = y.rel_path /\ x.size = y.size

\* dataclass(order=True) __lt__ : tuples (rel_path, size)
FSyncPathLt(x, y) ==
    \/ StrLt(x.rel_path, y.rel_path)
    \/ (x.rel_path = y.rel_path /\ x.size < y.size)

(***************************************************************************)
(* The target as the FTP session shows it                                  *)
(***************************************************************************)
\* the path below the target directory that an absolute path names
RelOfAbs(cfg, abs_path) ==
    IF abs_path = cfg.target_directory THEN EmptyStr
    ELSE SubSeq(abs_path, Len(cfg.target_directory) + 2, Len(abs_path))

\* the session: the tree on the target, the order in which the server lists entries, and
\* whether it lists the entries of type cdir and pdir ('.' and '..') first
FTP(tree, order, dots) == [tree |-> tree, order |-> order, dots |-> dots]

\* FTP.mlsd(path): one directory level, (name, {type, size}), as the server sends it
mlsd(ftp_session, cfg, path) ==
    LET nodes == InOrder(Children(ftp_session.tree, RelOfAbs(cfg, path)), ftp_session.order)
    IN  (IF ftp_session.dots
         THEN <<[name |-> <<Dot>>, type |-> "cdir", size |-> 0],
                [name |-> <<Dot, Dot>>, type |-> "pdir", size |-> 0]>>
         ELSE <<>>)
        \o [i \in 1..Len(nodes) |->
               [name |-> BaseName(nodes[i].path), type |-> nodes[i].kind, size |-> nodes[i].size]]

(***************************************************************************)
(* dict: the items in insertion order; a value is a list or a dict         *)
(***************************************************************************)
EmptyDict == <<>>
ListVal(v) == [t |-> "list", v |-> v]
DictVal(v) == [t |-> "dict", v |-> v]
DictHas(d, k) == \E i \in 1..Len(d) : d[i].k = k

\* d[k] = val
DictSet(d, k, val) ==
    IF DictHas(d, k)
    THEN [i \in 1..Len(d) |-> IF d[i].k = k THEN [k |-> k, t |-> val.t, v |-> val.v] ELSE d[i]]
    ELSE Append(d, [k |-> k, t |-> val.t, v |-> val.v])

(***************************************************************************)
(* _list_remote                                                            *)
(***************************************************************************)
RECURSIVE _list_remote(_, _, _)
RECURSIVE ListRemoteSubdirs(_, _, _, _, _, _)

\* the loop `for sd in subdirs`
ListRemoteSubdirs(cfg, ftp_session, path, subdirs, i, tp) ==
    IF i > Len(subdirs) THEN tp
    ELSE LET sd_rel_path == subdirs[i].rel_path
             sub == _list_remote(cfg, ftp_session, Join(path, sd_rel_path))
         IN  ListRemoteSubdirs(cfg, ftp_session, path, subdirs, i + 1,
                               DictSet(tp, sd_rel_path, DictVal(sub)))

_list_remote(cfg, ftp_session, path) ==
    LET p == IF path = EmptyStr THEN cfg.target_directory ELSE path
        listing == mlsd(ftp_session, cfg, p)
        fl == SelectSeq(listing, LAMBDA e : e.type = "file")
        dl == SelectSeq(listing, LAMBDA e : e.type = "dir")
        files == [i \in 1..Len(fl) |-> FSyncPath("file", fl[i].name, EmptyStr, fl[i].size)]
        subdirs == [i \in 1..Len(dl) |-> FSyncPath("directory", dl[i].name, EmptyStr, DIR_SIZE)]
        tp == IF Len(listing) = 0 THEN EmptyDict
              ELSE DictSet(EmptyDict, NameFiles, ListVal(files))
    IN  IF Len(subdirs) = 0 THEN tp
        ELSE ListRemoteSubdirs(cfg, ftp_session, p, subdirs, 1, tp)

\* the paths given to mlsd by _list_remote(path), in call order
RECURSIVE ListRemoteCalls(_, _, _)
RECURSIVE ListRemoteSubdirCalls(_, _, _, _, _)

ListRemoteSubdirCalls(cfg, ftp_session, path, subdirs, i) ==
    IF i > Len(subdirs) THEN <<>>
    ELSE ListRemoteCalls(cfg, ftp_session, Join(path, subdirs[i].name))
         \o ListRemoteSubdirCalls(cfg, ftp_session, path, subdirs, i + 1)

ListRemoteCalls(cfg, ftp_session, path) ==
    LET p == IF path = EmptyStr THEN cfg.target_directory ELSE path
        dl == SelectSeq(mlsd(ftp_session, cfg, p), LAMBDA e : e.type = "dir")
    IN  <<p>> \o ListRemoteSubdirCalls(cfg, ftp_session, p, dl, 1)

(***************************************************************************)
(* _list_source                                                            *)
(***************************************************************************)
\* PurePath.stem
Stem(name) ==
    LET I == {i \in 1..Len(name) : name[i] = Dot}
        i == IF I = {} THEN 0 ELSE CHOOSE a \in I : \A b \in I : b <= a
    IN  IF 1 < i /\ i < Len(name) THEN SubSeq(name, 1, i - 1) ELSE name

\* s.startswith('.')
StartsWithDot(s) == Len(s) > 0 /\ s[1] = Dot

\* whether the walk keeps the node
ListSourceKeeps(fs, n) ==
    IF n.kind = "dir" THEN Children(fs, n.path) # {}
    ELSE ~StartsWithDot(Stem(BaseName(n.path)))

\* Path.rglob('*'): for each directory, the root first and every directory before the
\* directories below it, the entries of the directory in the order of os.scandir
RECURSIVE rglob(_, _, _)
RECURSIVE RglobSubdirs(_, _, _, _)

RglobSubdirs(fs, order, entries, i) ==
    IF i > Len(entries) THEN <<>>
    ELSE (IF entries[i].kind = "dir" THEN rglob(fs, order, entries[i].path) ELSE <<>>)
         \o RglobSubdirs(fs, order, entries, i + 1)

rglob(fs, order, d) ==
    LET entries == InOrder(Children(fs, d), order)
    IN  entries \o RglobSubdirs(fs, order, entries, 1)

_list_source(fs, order, source_directory) ==
    LET walk == rglob(fs, order, EmptyStr)
        kept == SelectSeq(walk, LAMBDA n : ListSourceKeeps(fs, n))
    IN  [i \in 1..Len(kept) |->
            IF kept[i].kind = "dir"
            THEN FSyncPath("directory", kept[i].path, Join(source_directory, kept[i].path), DIR_SIZE)
            ELSE FSyncPath("file", kept[i].path, Join(source_directory, kept[i].path), kept[i].size)]

(***************************************************************************)
(* _to_list                                                                *)
(***************************************************************************)
RECURSIVE _to_list(_, _, _)
RECURSIVE ToListLoop(_, _, _, _, _)
RECURSIVE ToListRewritten(_, _, _)
RECURSIVE ToListRewriteLoop(_, _, _, _, _)

\* the loop over the items of a list value: `item.rel_path = p`
ToListItems(path, v) ==
    [i \in 1..Len(v) |->
        [v[i] EXCEPT !.rel_path = IF path = EmptyStr THEN @ ELSE Join(path, @)]]

\* path after `if k != 'files'`
ToListPathOfKey(path, k) ==
    IF k # NameFiles
    THEN (IF path = EmptyStr THEN k ELSE Join(path, k))
    ELSE path

\* path after the value of the key was handled: the parent, after a dict
ToListPathAfter(path1, t) ==
    IF t = "dict"
    THEN (IF PathParent(path1) = <<Dot>> THEN EmptyStr ELSE PathParent(path1))
    ELSE path1

\* the loop `for k, v in target_paths.items()` from item i on
ToListLoop(cfg, tp, i, path, converted) ==
    IF i > Len(tp) THEN converted
    ELSE IF Len(tp) = 1 /\ Len(tp[i].v) = 0 THEN converted
    ELSE LET v == tp[i].v
             t == tp[i].t
             path1 == ToListPathOfKey(path, tp[i].k)
             conv1 == IF t = "list" THEN converted \o ToListItems(path1, v) ELSE converted
             conv2 == IF t = "dict"
                      THEN conv1
                           \o (IF path1 # EmptyStr
                               THEN <<FSyncPath("directory", path1, EmptyStr, DIR_SIZE)>>
                               ELSE <<>>)
                           \o _to_list(cfg, v, path1)
                      ELSE conv1
         IN  ToListLoop(cfg, tp, i + 1, ToListPathAfter(path1, t), conv2)

_to_list(cfg, tp, path) ==
    ToListLoop(cfg, tp, 1, IF path = cfg.target_directory THEN EmptyStr ELSE path, <<>>)

\* the dict after _to_list: the entries of its lists are the objects of the result, and
\* `item.rel_path = p` has changed them in place
ToListRewriteLoop(cfg, tp, i, path, out) ==
    IF i > Len(tp) THEN out
    ELSE IF Len(tp) = 1 /\ Len(tp[i].v) = 0 THEN out
    ELSE LET v == tp[i].v
             t == tp[i].t
             path1 == ToListPathOfKey(path, tp[i].k)
             v1 == IF t = "list" THEN ToListItems(path1, v) ELSE ToListRewritten(cfg, v, path1)
         IN  ToListRewriteLoop(cfg, tp, i + 1, ToListPathAfter(path1, t),
                               [out EXCEPT ![i].v = v1])

ToListRewritten(cfg, tp, path) ==
    ToListRewriteLoop(cfg, tp, 1, IF path = cfg.target_directory THEN EmptyStr ELSE path, tp)

(***************************************************************************)
(* _calculate_delta                                                        *)
(***************************************************************************)
\* x in s, for a set s built from the list
InList(x, list) == \E i \in 1..Len(list) : FSyncPathEq(list[i], x)

\* set(list): the first of equal entries stays
RECURSIVE PySet(_)
PySet(list) ==
    IF list = <<>> THEN <<>>
    ELSE LET front == PySet(SubSeq(list, 1, Len(list) - 1))
             last == list[Len(list)]
         IN  IF InList(last, front) THEN front ELSE Append(front, last)

\* set(a) - set(b)
SetDifference(a, b) == SelectSeq(PySet(a), LAMBDA x : ~InList(x, b))

\* sorted(s) of a set s
RECURSIVE SortedDescending(_)
SortedDescending(s) ==
    IF s = <<>> THEN <<>>
    ELSE LET m == CHOOSE i \in 1..Len(s) : \A j \in 1..Len(s) : j = i \/ FSyncPathLt(s[j], s[i])
         IN  <<s[m]>> \o SortedDescending(SelectSeq(s, LAMBDA x : x # s[m]))

RECURSIVE Sorted(_)
Sorted(s) ==
    IF s = <<>> THEN <<>>
    ELSE LET m == CHOOSE i \in 1..Len(s) : \A j \in 1..Len(s) : j = i \/ FSyncPathLt(s[i], s[j])
         IN  <<s[m]>> \o Sorted(SelectSeq(s, LAMBDA x : x # s[m]))

\* the pair (add, delete) that _calculate_delta returns
CalculateDeltaSwapped(sp, tp) ==
    [add |-> Sorted(SetDifference(tp, sp)), delete |-> Sorted(SetDifference(sp, tp))]
_calculate_delta(sp, tp) ==
    [add |-> Sorted(SetDifference(sp, tp)), delete |-> Sorted(SetDifference(tp, sp))]

\* whether _calculate_delta asks 'Continue?'
DeltaPromptsNever(delete) == FALSE
DeltaPrompts(delete) == Len(delete) # 0

(***************************************************************************)
(* _sync_delete: sorted(paths, key=lambda s: len(s.rel_path), reverse=True)*)
(***************************************************************************)
MaxRelLen(paths) ==
    IF paths = <<>> THEN 0
    ELSE LET L == {Len(paths[i].rel_path) : i \in 1..Len(paths)}
         IN  CHOOSE m \in L : \A l \in L : l <= m

RECURSIVE LenBucketsFrom(_, _)
LenBucketsFrom(paths, l) ==
    IF l < 0 THEN <<>>
    ELSE SelectSeq(paths, LAMBDA x : Len(x.rel_path) = l) \o LenBucketsFrom(paths, l - 1)

SyncDeleteOrder(paths) == LenBucketsFrom(paths, MaxRelLen(paths))

\* _sync_add_dir: the directories to create for an entry, in order
SyncAddDirParentsNone(cfg, rel_path) == <<>>
SyncAddDirParents(cfg, rel_path) ==
    LET parent == PathParent(rel_path)
        parents == Split(parent)
    IN  IF parents = <<(<<Dot>>)>> THEN <<>>
        ELSE [i \in 1..Len(parents) |->
                 LET RECURSIVE Abs(_)
                     Abs(n) == IF n = 0 THEN cfg.target_directory ELSE Join(Abs(n - 1), parents[n])
                 IN  Abs(i)]

(***************************************************************************)
(* The remote primitives (ftplib.FTP against the target)                   *)
(***************************************************************************)
ParentIsDir(fs, rel) == DirName(rel) = EmptyStr \/ IsDir(fs, DirName(rel))

FtpDeleteOk(fs, cfg, abs_path) == IsFile(fs, RelOfAbs(cfg, abs_path))
FtpRmdOk(fs, cfg, abs_path) ==
    IsDir(fs, RelOfAbs(cfg, abs_path)) /\ Children(fs, RelOfAbs(cfg, abs_path)) = {}
FtpRemove(fs, cfg, abs_path) == {n \in fs : n.path # RelOfAbs(cfg, abs_path)}

FtpMkdOk(fs, cfg, abs_path) ==
    ParentIsDir(fs, RelOfAbs(cfg, abs_path)) /\ ~IsFile(fs, RelOfAbs(cfg, abs_path))
FtpMkd(fs, cfg, abs_path) ==
    IF Exists(fs, RelOfAbs(cfg, abs_path)) THEN fs ELSE fs \cup {DirNode(RelOfAbs(cfg, abs_path))}

FtpStorOk(fs, cfg, abs_path) ==
    ParentIsDir(fs, RelOfAbs(cfg, abs_path)) /\ ~IsDir(fs, RelOfAbs(cfg, abs_path))
FtpStor(fs, cfg, abs_path, size) ==
    {n \in fs : n.path # RelOfAbs(cfg, abs_path)} \cup {FileNode(RelOfAbs(cfg, abs_path), size)}

\* one entry of the history
Ev(op, path, ok) == [op |-> op, path |-> path, ok |-> ok]

(***************************************************************************)
(* main                                                                    *)
(***************************************************************************)
\* main after _list_remote: an exception of mlsd is not caught anywhere
ListRemoteNextSwallow(failed) == "to_list"
ListRemoteNext(failed) == IF failed THEN "raised" ELSE "to_list"

\* where main goes after a phase: "delta", "delete" or "add"
MainNextAddFirst(phase, a, r) ==
    IF phase = "delta"
    THEN (IF a # <<>> THEN "sync_add" ELSE IF r # <<>> THEN "sync_delete" ELSE "quit")
    ELSE IF phase = "add" THEN (IF r # <<>> THEN "sync_delete" ELSE "quit")
    ELSE "quit"
MainNext(phase, a, r) ==
    IF phase = "delta"
    THEN (IF r # <<>> THEN "sync_delete" ELSE IF a # <<>> THEN "sync_add" ELSE "quit")
    ELSE IF phase = "delete" THEN (IF a # <<>> THEN "sync_add" ELSE "quit")
    ELSE "quit"

\* _sync_delete after the call for paths[i] of n returned (ok) or raised
SyncDeleteOutcomeKeepGoing(ok, i, n, a, r) ==
    [pc |-> IF i = n THEN MainNext("delete", a, r) ELSE "sync_delete",
     del_i |-> i + 1, exit_code |-> -1]
SyncDeleteOutcome(ok, i, n, a, r) ==
    IF ok
    THEN [pc |-> IF i = n THEN MainNext("delete", a, r) ELSE "sync_delete",
          del_i |-> i + 1, exit_code |-> -1]
    ELSE [pc |-> "exit", del_i |-> i, exit_code |-> 1]

Locals ==
    <<source_paths, target_paths, target_paths_converted, add, remove, del_i, add_i, mk_j,
      bytes_transferred>>
WalkInput == <<t_depth, t_leaf, t_mlsd>>
Walk == <<WalkInput, t_level, t_frames>>
Harness == <<d_source, d_target, d_result, d_order, Walk>>

InitLocals ==
    /\ source_paths = <<>>
    /\ target_paths = <<>>
    /\ target_paths_converted = <<>>
    /\ add = <<>>
    /\ remove = <<>>
    /\ del_i = 1
    /\ add_i = 1
    /\ mk_j = 0
    /\ bytes_transferred = 0
    /\ calls = <<>>
    /\ exit_code = -1

Init ==
    /\ local \in Trees
    /\ remote \in Trees
    /\ Cardinality(local) + Cardinality(remote) <= MaxTotal
    /\ config = [source_directory |-> SOURCE_DIRECTORY, target_directory |-> TARGET_DIRECTORY]
    /\ pc = "list_source"
    /\ pass = 1
    /\ InitLocals
    /\ d_source = <<>>
    /\ d_target = <<>>
    /\ d_result = [add |-> <<>>, delete |-> <<>>]
    /\ d_order = <<>>
    /\ t_depth = 0
    /\ t_leaf = FALSE
    /\ t_mlsd = 1
    /\ t_level = 0
    /\ t_frames = 0

\* status of a process that the interpreter ends by the signal SIGINT after an uncaught
\* KeyboardInterrupt, as a shell reports it (128 + 2; the parent process sees signal 2)
SIGINT_STATUS == 130

\* the ways input() ends: it returns a line, or it raises at the end of the input or on an
\* interrupt; nothing catches either exception
PromptOutcomes(issued) ==
    IF issued THEN {"answered", "EOFError", "KeyboardInterrupt"} ELSE {"answered"}

\* status of the process after a prompt: unchanged when main goes on, 1 after the uncaught
\* EOFError, SIGINT_STATUS after the uncaught KeyboardInterrupt
PromptExit(outcome, status) ==
    IF outcome = "answered" THEN status
    ELSE IF outcome = "EOFError" THEN 1
    ELSE SIGINT_STATUS

\* source_paths = _list_source(...); the prompt for an empty source, where input() returns
\* or raises
ListSource ==
    /\ pc = "list_source"
    /\ \E order \in Orders(local) :
         LET listed == _list_source(local, order, config.source_directory)
         IN  \E outcome \in PromptOutcomes(Len(listed) = 0) :
               /\ source_paths' = listed
               /\ calls' = IF Len(listed) = 0
                           THEN Append(calls, Ev("prompt_empty", EmptyStr, outcome = "answered"))
                           ELSE calls
               /\ pc' = IF outcome = "answered" THEN "login" ELSE "raised"
               /\ exit_code' = PromptExit(outcome, exit_code)
    /\ UNCHANGED <<local, remote, config, pass, target_paths, target_paths_converted, add,
                   remove, del_i, add_i, mk_j, bytes_transferred, Harness>>

\* ftp_session = _login(...)
Login ==
    /\ pc = "login"
    /\ \E ok \in BOOLEAN :
        /\ calls' = Append(calls, Ev("login", EmptyStr, ok))
        /\ pc' = IF ok THEN "list_remote" ELSE "raised"
        /\ exit_code' = IF ok THEN exit_code ELSE 1
    /\ UNCHANGED <<local, remote, config, pass, Locals, Harness>>

\* target_paths = _list_remote(config, ftp_session): the mlsd calls of the recursion,
\* of which the one numbered fail_at (if any) raises
ListRemote ==
    /\ pc = "list_remote"
    /\ \E order \in Orders(remote), dots \in BOOLEAN :
         LET ftp_session == FTP(remote, order, dots)
             paths == ListRemoteCalls(config, ftp_session, EmptyStr)
         IN  \E fail_at \in 0..Len(paths) :
               LET failed == fail_at # 0
                   n == IF failed THEN fail_at ELSE Len(paths)
               IN  /\ calls' = calls \o [i \in 1..n |-> Ev("mlsd", paths[i], i # fail_at)]
                   /\ target_paths' = IF failed THEN target_paths
                                       ELSE _list_remote(config, ftp_session, EmptyStr)
                   /\ pc' = ListRemoteNext(failed)
                   /\ exit_code' = IF ListRemoteNext(failed) = "raised" THEN 1 ELSE exit_code
    /\ UNCHANGED <<local, remote, config, pass, source_paths, target_paths_converted, add,
                   remove, del_i, add_i, mk_j, bytes_transferred, Harness>>

\* target_paths_converted = _to_list(config, target_paths), which rewrites the entries of
\* target_paths
ToList ==
    /\ pc = "to_list"
    /\ target_paths_converted' = _to_list(config, target_paths, EmptyStr)
    /\ target_paths' = ToListRewritten(config, target_paths, EmptyStr)
    /\ pc' = "calculate_delta"
    /\ UNCHANGED <<local, remote, config, pass, source_paths, add, remove,
                   del_i, add_i, mk_j, bytes_transferred, calls, exit_code, Harness>>

\* add, remove = _calculate_delta(...): the two reports, the prompt, the pair; when
\* input('Continue?') raises, _calculate_delta does not return and main is left with add
\* and remove unassigned
CalculateDelta ==
    /\ pc = "calculate_delta"
    /\ LET d == _calculate_delta(source_paths, target_paths_converted)
       IN  \E outcome \in PromptOutcomes(DeltaPrompts(d.delete)) :
             /\ add' = IF outcome = "answered" THEN d.add ELSE add
             /\ remove' = IF outcome = "answered" THEN d.delete ELSE remove
             /\ calls' = calls
                         \o <<Ev("report_add", EmptyStr, TRUE), Ev("report_remove", EmptyStr, TRUE)>>
                         \o (IF DeltaPrompts(d.delete)
                             THEN <<Ev("prompt_continue", EmptyStr, outcome = "answered")>>
                             ELSE <<>>)
             /\ pc' = IF outcome = "answered" THEN MainNext("delta", d.add, d.delete)
                      ELSE "raised"
             /\ exit_code' = PromptExit(outcome, exit_code)
    /\ UNCHANGED <<local, remote, config, pass, source_paths, target_paths,
                   target_paths_converted, del_i, add_i, mk_j, bytes_transferred, Harness>>

\* one iteration of the loop of _sync_delete: delete or rmd
SyncDeleteCall ==
    /\ pc = "sync_delete"
    /\ LET paths == SyncDeleteOrder(remove)
           path == paths[del_i]
           abs_path == Join(config.target_directory, path.rel_path)
           is_file == path.path_type = "file"
       IN  /\ del_i <= Len(paths)
           /\ \E fault \in BOOLEAN :
                LET ok == /\ ~fault
                          /\ IF is_file THEN FtpDeleteOk(remote, config, abs_path)
                                        ELSE FtpRmdOk(remote, config, abs_path)
                    out == SyncDeleteOutcome(ok, del_i, Len(paths), add, remove)
                IN  /\ calls' = Append(calls, Ev(IF is_file THEN "delete" ELSE "rmd", abs_path, ok))
                    /\ remote' = IF ok THEN FtpRemove(remote, config, abs_path) ELSE remote
                    /\ pc' = out.pc
                    /\ del_i' = out.del_i
                    /\ exit_code' = out.exit_code
    /\ UNCHANGED <<local, config, pass, source_paths, target_paths, target_paths_converted,
                   add, remove, add_i, mk_j, bytes_transferred, Harness>>

\* _sync_add: `if Path(path).is_dir(): continue`
SyncAddSkipDir ==
    /\ pc = "sync_add"
    /\ add_i <= Len(add)
    /\ IsDir(local, add[add_i].rel_path)
    /\ add_i' = add_i + 1
    /\ UNCHANGED <<local, remote, config, pc, pass, source_paths, target_paths,
                   target_paths_converted, add, remove, del_i, mk_j, bytes_transferred, calls,
                   exit_code, Harness>>

\* _sync_add_dir: one mkd of the loop over the parents
SyncAddMkd ==
    /\ pc = "sync_add"
    /\ add_i <= Len(add)
    /\ ~IsDir(local, add[add_i].rel_path)
    /\ LET parents == SyncAddDirParents(config, add[add_i].rel_path)
       IN  /\ mk_j < Len(parents)
           /\ \E reply \in {"ok", "falsy", "raise"} :
                LET abs_path == parents[mk_j + 1]
                    res == IF reply = "ok" /\ ~FtpMkdOk(remote, config, abs_path)
                           THEN "raise" ELSE reply
                IN  /\ calls' = Append(calls, Ev("mkd", abs_path, res = "ok"))
                    /\ remote' = IF res = "ok" THEN FtpMkd(remote, config, abs_path) ELSE remote
                    /\ mk_j' = IF res = "ok" THEN mk_j + 1 ELSE mk_j
                    /\ pc' = IF res = "ok" THEN pc ELSE IF res = "falsy" THEN "exit" ELSE "raised"
                    /\ exit_code' = IF res = "ok" THEN exit_code ELSE 1
    /\ UNCHANGED <<local, config, pass, source_paths, target_paths, target_paths_converted,
                   add, remove, del_i, add_i, bytes_transferred, Harness>>

\* _sync_add: the upload of the item, after its directories
SyncAddStor ==
    /\ pc = "sync_add"
    /\ add_i <= Len(add)
    /\ ~IsDir(local, add[add_i].rel_path)
    /\ mk_j = Len(SyncAddDirParents(config, add[add_i].rel_path))
    /\ LET rel_path == add[add_i].rel_path
           abs_path == Join(config.target_directory, rel_path)
           size == NodeAt(local, rel_path).size
       IN  \E fault \in BOOLEAN :
             LET ok == ~fault /\ FtpStorOk(remote, config, abs_path)
             IN  /\ calls' = Append(calls, Ev("stor", abs_path, ok))
                 /\ remote' = IF ok THEN FtpStor(remote, config, abs_path, size) ELSE remote
                 /\ bytes_transferred' =
                        IF ok
                        THEN bytes_transferred + (IF size = 0 THEN EMPTY_FILE_WEIGHT ELSE size * 1000)
                        ELSE bytes_transferred
                 /\ add_i' = IF ok THEN add_i + 1 ELSE add_i
                 /\ mk_j' = IF ok THEN 0 ELSE mk_j
                 /\ pc' = IF ok THEN pc ELSE "exit"
                 /\ exit_code' = IF ok THEN exit_code ELSE 1
    /\ UNCHANGED <<local, config, pass, source_paths, target_paths, target_paths_converted,
                   add, remove, del_i, Harness>>

\* _sync_add returns bytes_transferred; main: `if not bytes_transferred: return 1`
SyncAddReturn ==
    /\ pc = "sync_add"
    /\ add_i > Len(add)
    /\ pc' = IF bytes_transferred = 0 THEN "exit" ELSE MainNext("add", add, remove)
    /\ exit_code' = IF bytes_transferred = 0 THEN 1 ELSE exit_code
    /\ UNCHANGED <<local, remote, config, pass, Locals, calls, Harness>>

\* ftp_session.quit(); return 0
Quit ==
    /\ pc = "quit"
    /\ \E ok \in BOOLEAN :
        /\ calls' = Append(calls, Ev("quit", EmptyStr, ok))
        /\ pc' = IF ok THEN "done" ELSE "raised"
        /\ exit_code' = IF ok THEN 0 ELSE 1
    /\ UNCHANGED <<local, remote, config, pass, Locals, Harness>>

\* the operator runs the tool again after a run that returned 0, the source unchanged
Rerun ==
    /\ pc = "done"
    /\ pass < MaxPass
    /\ pass' = pass + 1
    /\ pc' = "list_source"
    /\ source_paths' = <<>>
    /\ target_paths' = <<>>
    /\ target_paths_converted' = <<>>
    /\ add' = <<>>
    /\ remove' = <<>>
    /\ del_i' = 1
    /\ add_i' = 1
    /\ mk_j' = 0
    /\ bytes_transferred' = 0
    /\ calls' = <<>>
    /\ exit_code' = -1
    /\ UNCHANGED <<local, remote, config, Harness>>

Next ==
    \/ ListSource
    \/ Login
    \/ ListRemote
    \/ ToList
    \/ CalculateDelta
    \/ SyncDeleteCall
    \/ SyncAddSkipDir
    \/ SyncAddMkd
    \/ SyncAddStor
    \/ SyncAddReturn
    \/ Quit
    \/ Rerun

Spec == Init /\ [][Next]_vars

(***************************************************************************)
(* _calculate_delta and the sort of _sync_delete applied to arbitrary      *)
(* lists of entries                                                        *)
(***************************************************************************)
DeltaPaths == {NameA, Join(NameA, NameA)}
SourceEntries ==
    {FSyncPath(t, p, Join(SOURCE_DIRECTORY, p), sz) :
        t \in {"file", "directory"}, p \in DeltaPaths, sz \in FileSizes}
TargetEntries ==
    {FSyncPath(t, p, EmptyStr, sz) :
        t \in {"file", "directory"}, p \in DeltaPaths, sz \in FileSizes}
ListsOf(E) == UNION {[1..n -> E] : n \in 0..MaxLen}

InitDelta ==
    /\ d_source \in ListsOf(SourceEntries)
    /\ d_target \in ListsOf(TargetEntries)
    /\ d_result = [add |-> <<>>, delete |-> <<>>]
    /\ d_order = <<>>
    /\ t_depth = 0
    /\ t_leaf = FALSE
    /\ t_mlsd = 1
    /\ t_level = 0
    /\ t_frames = 0
    /\ pc = "delta_input"
    /\ local = {}
    /\ remote = {}
    /\ config = [source_directory |-> SOURCE_DIRECTORY, target_directory |-> TARGET_DIRECTORY]
    /\ pass = 1
    /\ InitLocals

DeltaApply ==
    /\ pc = "delta_input"
    /\ d_result' = _calculate_delta(d_source, d_target)
    /\ pc' = "delta_output"
    /\ UNCHANGED <<local, remote, config, pass, Locals, calls, exit_code, d_source, d_target,
                   d_order, Walk>>

DeltaOrder ==
    /\ pc = "delta_output"
    /\ d_order' = SyncDeleteOrder(d_result.delete)
    /\ pc' = "delta_ordered"
    /\ UNCHANGED <<local, remote, config, pass, Locals, calls, exit_code, d_source, d_target,
                   d_result, Walk>>

NextDelta ==
    \/ DeltaApply
    \/ DeltaOrder

SpecDelta == InitDelta /\ [][NextDelta]_vars

(***************************************************************************)
(* main's listing and flattening of the target applied to a tree of nested *)
(* directories, under sys.setrecursionlimit(RECURSION_LIMIT).  The tree is *)
(* a chain: the root holds a directory, which holds a directory, ...       *)
(* t_depth levels deep; the deepest directory holds one file (t_leaf) or   *)
(* nothing.  t_frames counts the frames on the interpreter's stack: the    *)
(* module, main, and one per nested call of _list_remote or _to_list.      *)
(* A frame here is a level of the interpreter's recursion counter: a       *)
(* Python frame, or a counted call of a class or of a C function.          *)
(* The source directory was enumerated before (local), and the session's   *)
(* mlsd needs t_mlsd frames: 1 for a method that returns a stored list, 9  *)
(* for ftplib.FTP up to its write to the connection (mlsd, retrlines,      *)
(* transfercmd, ntransfercmd, makepasv, sendcmd, putcmd, putline and the   *)
(* call of the socket), 13 for ftplib.FTP reading the reply from a socket  *)
(* (..., sendcmd, getresp, getmultiline, getline, readline, readinto,      *)
(* _checkReadable).                                                        *)
(***************************************************************************)
\* the frames of the module and of main, from which the traversal is called
MainFrames == <<"module", "main">>

\* frames the constructor FSyncPath(...) needs: the call of the class and __init__
ENTRY_FRAMES == 2

\* frames str(Path(path).parent) puts on the stack above _to_list (CPython 3.11 pathlib:
\* the call of the class, __new__, _from_parts, _parse_args, parse_parts, splitroot)
PATH_PARENT_FRAMES == 6

\* entries of the source directory after whose abs_path = path.resolve() the interpreter
\* has specialised the code of pathlib
PATHLIB_WARM_ENTRIES == 5

\* whether _list_source has run pathlib often enough for the interpreter to have specialised
\* its code: an entry for which rel_path and size were computed (a file, or a directory
\* that is not empty), or PATHLIB_WARM_ENTRIES empty directories
PathlibWarm(fs) ==
    \/ \E n \in fs : n.kind = "file" \/ Children(fs, n.path) # {}
    \/ Cardinality(fs) >= PATHLIB_WARM_ENTRIES

\* frames str(Path(path).parent) needs: until its code is specialised, the method call
\* in splitroot counts as one more
PathParentFrames(fs) ==
    IF PathlibWarm(fs) THEN PATH_PARENT_FRAMES ELSE PATH_PARENT_FRAMES + 1

\* the source directories of the traversal: empty, one file, one empty directory
DepthSources == {{}, {FileNode(NameA, 1)}, {DirNode(NameA)}}

\* frames the repr of a list holding one FSyncPath puts on the stack above the repr of
\* the dict that holds it (CPython 3.11: list, dataclass __repr__, Enum __repr__, fields)
REPR_ENTRY_FRAMES == 8

\* frames a call of a builtin needs (a comparison, items(), the formatting of a value)
BUILTIN_FRAMES == 1

\* a call that needs `need` frames above the `frames` in use raises RecursionError when
\* the stack would grow beyond the limit: a stack of exactly RECURSION_LIMIT is allowed
CallOverflows(frames, need) == frames + need > RECURSION_LIMIT

\* frames _list_remote needs above its own for one directory: those of mlsd, and those of
\* the constructor for an entry of the listing
ListRemoteFrames(mlsd_frames, has_entry) ==
    IF has_entry /\ ENTRY_FRAMES > mlsd_frames THEN ENTRY_FRAMES ELSE mlsd_frames

\* frames _to_list needs above its own for one dict: those of the constructor for the
\* directory entry of a dict value, and without one those of the builtins it calls
ToListFrames(has_subdir) == IF has_subdir THEN ENTRY_FRAMES ELSE BUILTIN_FRAMES

\* frames the f-string of logging.debug needs for the repr of target_paths: the formatting
\* of the value, one per nested dict (the dict of an empty deepest directory is {}), and
\* those of the entry of the deepest directory
ReprFrames(depth, leaf) ==
    BUILTIN_FRAMES + (depth + 1) + (IF leaf THEN REPR_ENTRY_FRAMES ELSE 0)

InitDepth ==
    /\ t_depth \in 0..MaxDepth
    /\ t_leaf \in BOOLEAN
    /\ t_mlsd \in 1..MaxMlsdFrames
    /\ t_level = 0
    /\ t_frames = Len(MainFrames)
    /\ pc = "list_remote_call"
    /\ local \in DepthSources
    /\ remote = {}
    /\ config = [source_directory |-> SOURCE_DIRECTORY, target_directory |-> TARGET_DIRECTORY]
    /\ pass = 1
    /\ InitLocals
    /\ d_source = <<>>
    /\ d_target = <<>>
    /\ d_result = [add |-> <<>>, delete |-> <<>>]
    /\ d_order = <<>>

\* the call of _list_remote for the directory at level t_level (0 is the root), which
\* calls ftp_session.mlsd and builds the FSyncPath of the entry listed (the directory
\* below, or the file of the deepest directory) before it descends; from the deepest
\* directory the calls return to main
ListRemoteDescend ==
    /\ pc = "list_remote_call"
    /\ IF CallOverflows(t_frames, 1 + ListRemoteFrames(t_mlsd, t_level < t_depth \/ t_leaf))
       THEN /\ pc' = "RecursionError"
            /\ UNCHANGED <<t_level, t_frames>>
       ELSE IF t_level = t_depth
       THEN /\ pc' = "debug_repr"
            /\ t_level' = 0
            /\ t_frames' = Len(MainFrames)
       ELSE /\ pc' = pc
            /\ t_level' = t_level + 1
            /\ t_frames' = t_frames + 1
    /\ UNCHANGED <<local, remote, config, pass, Locals, calls, exit_code, d_source, d_target,
                   d_result, d_order, WalkInput>>

\* main: logging.debug(f'Files in target media directory: {target_paths}'); the f-string
\* is evaluated, and with it the repr of the nested dict, whatever the log level
DebugRepr ==
    /\ pc = "debug_repr"
    /\ pc' = IF CallOverflows(t_frames, ReprFrames(t_depth, t_leaf))
             THEN "RecursionError"
             ELSE "to_list_call"
    /\ UNCHANGED <<local, remote, config, pass, Locals, calls, exit_code, d_source, d_target,
                   d_result, d_order, WalkInput, t_level, t_frames>>

\* the call of _to_list for the dict of the directory at level t_level, which builds the
\* FSyncPath of the directory below it before it descends; the call for the deepest
\* directory returns to the loop of the level above it
ToListDescend ==
    /\ pc = "to_list_call"
    /\ IF CallOverflows(t_frames, 1 + ToListFrames(t_level < t_depth))
       THEN /\ pc' = "RecursionError"
            /\ UNCHANGED <<t_level, t_frames>>
       ELSE IF t_level = t_depth
       THEN /\ pc' = IF t_depth = 0 THEN "flattened" ELSE "to_list_parent"
            /\ t_level' = IF t_depth = 0 THEN 0 ELSE t_level - 1
            /\ t_frames' = t_frames
       ELSE /\ pc' = pc
            /\ t_level' = t_level + 1
            /\ t_frames' = t_frames + 1
    /\ UNCHANGED <<local, remote, config, pass, Locals, calls, exit_code, d_source, d_target,
                   d_result, d_order, WalkInput>>

\* _to_list at level t_level, after the call for the directory below returned:
\* path = str(Path(path).parent); then it returns to the level above, at last to main
ToListAscend ==
    /\ pc = "to_list_parent"
    /\ IF CallOverflows(t_frames, PathParentFrames(local))
       THEN /\ pc' = "RecursionError"
            /\ UNCHANGED <<t_level, t_frames>>
       ELSE IF t_level = 0
       THEN /\ pc' = "flattened"
            /\ t_level' = 0
            /\ t_frames' = Len(MainFrames)
       ELSE /\ pc' = pc
            /\ t_level' = t_level - 1
            /\ t_frames' = t_frames - 1
    /\ UNCHANGED <<local, remote, config, pass, Locals, calls, exit_code, d_source, d_target,
                   d_result, d_order, WalkInput>>

NextDepth ==
    \/ ListRemoteDescend
    \/ DebugRepr
    \/ ToListDescend
    \/ ToListAscend

SpecDepth == InitDepth /\ [][NextDepth]_vars

(***************************************************************************)
(* Properties                                                              *)
(***************************************************************************)
Keys(list) == {<<list[i].rel_path, list[i].size>> : i \in 1..Len(list)}
Elems(list) == {list[i] : i \in 1..Len(list)}
UniquePaths(list) ==
    \A i, j \in 1..Len(list) : list[i].rel_path = list[j].rel_path => i = j
OpsOf(S) == {k \in 1..Len(calls) : calls[k].op \in S}
AllCallsOk == \A k \in 1..Len(calls) : calls[k].ok
\* the ancestors of a relative path, outermost first: its prefixes before each '/'
AncestorsOf(rel) ==
    LET I == {i \in 1..Len(rel) : rel[i] = Slash}
        RECURSIVE Up(_)
        Up(S) == IF S = {} THEN <<>>
                 ELSE LET m == CHOOSE i \in S : \A j \in S : i <= j
                      IN  <<SubSeq(rel, 1, m - 1)>> \o Up(S \ {m})
    IN  Up(I)
\* the files of a tree as (path, size) pairs
FilePairs(fs) == {<<n.path, n.size>> : n \in {m \in fs : m.kind = "file"}}
NonHiddenFilePairs(fs) ==
    {<<n.path, n.size>> : n \in {m \in fs : m.kind = "file" /\ BaseName(m.path)[1] # Dot}}

\* C1: after a pass in which every remote primitive succeeded, the (path, size) pairs
\* of the remote files are those of the non-hidden local files.
C1_RemoteMatchesLocal ==
    (pc \in {"done", "exit"} /\ AllCallsOk) => FilePairs(remote) = NonHiddenFilePairs(local)

\* C2: add = local - remote and remove = remote - local under the rule
\* "equal iff relative path and size match"; kind and source path play no part; both are
\* empty iff the (path, size) pairs agree; the delta of a list against itself is empty.
C2_DeltaIsSetDifference ==
    pc # "delta_input" =>
        /\ Keys(d_result.add) = Keys(d_source) \ Keys(d_target)
        /\ Keys(d_result.delete) = Keys(d_target) \ Keys(d_source)
        /\ Elems(d_result.add) \subseteq Elems(d_source)
        /\ Elems(d_result.delete) \subseteq Elems(d_target)
        /\ Len(d_result.add) = Cardinality(Keys(d_result.add))
        /\ Len(d_result.delete) = Cardinality(Keys(d_result.delete))
        /\ (d_result.add = <<>> /\ d_result.delete = <<>>) <=> (Keys(d_source) = Keys(d_target))
        /\ _calculate_delta(d_source, d_source) = [add |-> <<>>, delete |-> <<>>]

\* C2 witness: the two lists share a (path, size) pair held with different kinds and
\* source paths, and each also holds a pair the other lacks.
C2_Witness ==
    /\ pc = "delta_output"
    /\ \E i \in 1..Len(d_source), j \in 1..Len(d_target) :
        /\ FSyncPathEq(d_source[i], d_target[j])
        /\ d_source[i].path_type # d_target[j].path_type
        /\ d_source[i].abs_path # d_target[j].abs_path
    /\ Len(d_result.add) = 1
    /\ Len(d_result.delete) = 1

\* C3: a path held on both sides with different sizes is in both results: the local entry
\* in add, the remote entry in remove.
C3_SizeChangeInBoth ==
    pc # "delta_input" =>
        \A i \in 1..Len(d_source), j \in 1..Len(d_target) :
            (d_source[i].rel_path = d_target[j].rel_path /\ d_source[i].size # d_target[j].size)
                => /\ d_source[i] \in Elems(d_result.add)
                   /\ d_target[j] \in Elems(d_result.delete)

\* C4: the second of two passes over an unchanged source computes an empty add list and an
\* empty remove list.
C4_SecondPassEmptyDelta ==
    (pass = 2 /\ pc \notin {"list_source", "login", "list_remote", "to_list", "calculate_delta", "raised"})
        => (add = <<>> /\ remove = <<>>)

\* C5 as claimed: the remove list that _calculate_delta returns is ordered by relative-path
\* length descending, every nested entry before its directory.
C5_ReturnedRemoveLengthDescending ==
    pc # "delta_input" =>
        \A i, j \in 1..Len(d_result.delete) :
            i < j => Len(d_result.delete[i].rel_path) >= Len(d_result.delete[j].rel_path)

\* C5 amended: the remove list that _calculate_delta returns is ascending by
\* (relative path, size); _sync_delete reorders it by relative-path length descending,
\* keeping the ascending order among equal lengths, so that every entry nested under a
\* directory is processed before that directory.
C5_RemoveAscendingSyncDeleteLengthDescending ==
    /\ pc # "delta_input" =>
        \A i, j \in 1..Len(d_result.delete) :
            i < j => FSyncPathLt(d_result.delete[i], d_result.delete[j])
    /\ pc = "delta_ordered" =>
        /\ Elems(d_order) = Elems(d_result.delete)
        /\ Len(d_order) = Len(d_result.delete)
        /\ \A i, j \in 1..Len(d_order) :
            i < j =>
                /\ Len(d_order[i].rel_path) >= Len(d_order[j].rel_path)
                /\ Len(d_order[i].rel_path) = Len(d_order[j].rel_path)
                        => FSyncPathLt(d_order[i], d_order[j])
                /\ d_order[i].rel_path \notin Elems(AncestorsOf(d_order[j].rel_path))

\* C5 witness: remove is returned as [a, a/a] and _sync_delete processes [a/a, a].
C5_Witness ==
    /\ pc = "delta_ordered"
    /\ d_result.delete = <<FSyncPath("directory", NameA, EmptyStr, 0),
                           FSyncPath("file", Join(NameA, NameA), EmptyStr, 1)>>
    /\ d_order = <<FSyncPath("file", Join(NameA, NameA), EmptyStr, 1),
                   FSyncPath("directory", NameA, EmptyStr, 0)>>

\* C6: rmd is only invoked on a remote directory that has no entry left in it.
C6_RmdOnlyOnEmptyDirectory ==
    (/\ pc = "sync_delete"
     /\ del_i <= Len(remove)
     /\ SyncDeleteOrder(remove)[del_i].path_type = "directory")
        => Children(remote, SyncDeleteOrder(remove)[del_i].rel_path) = {}

\* C7: no delete or rmd follows a mkd or an upload, and the first mkd or upload is issued
\* only after the whole remove list has been processed.
C7_DeleteBeforeAdd ==
    /\ \A i \in OpsOf({"mkd", "stor"}), j \in OpsOf({"delete", "rmd"}) : j < i
    /\ OpsOf({"mkd", "stor"}) # {} =>
            Cardinality(OpsOf({"delete", "rmd"})) = Len(remove)

\* C7 witness: a run that deleted, created a directory and uploaded.
C7_Witness ==
    /\ pc = "done"
    /\ OpsOf({"delete"}) # {}
    /\ OpsOf({"rmd"}) # {}
    /\ OpsOf({"mkd"}) # {}
    /\ OpsOf({"stor"}) # {}

\* C8: a failed delete or rmd is the last remote call of the run: _sync_delete has returned
\* failure, no further deletion, mkd or upload is attempted, main exits non-zero and the
\* deletions done before it remain in effect.
C8_DeleteFailFast ==
    \A k \in OpsOf({"delete", "rmd"}) :
        ~calls[k].ok =>
            /\ k = Len(calls)
            /\ pc = "exit"
            /\ exit_code # 0
            /\ exit_code # -1
            /\ OpsOf({"mkd", "stor", "quit"}) = {}
            /\ del_i < Len(remove) + 1
            /\ Cardinality(OpsOf({"delete", "rmd"})) = del_i
            /\ \A i \in OpsOf({"delete", "rmd"}) :
                    i < k => (calls[i].ok /\ ~Exists(remote, RelOfAbs(config, calls[i].path)))

\* C8 witness: the second of three queued deletions failed, with something to add.
C8_Witness ==
    /\ pc = "exit"
    /\ Len(remove) = 3
    /\ add # <<>>
    /\ Cardinality(OpsOf({"delete", "rmd"})) = 2
    /\ \E k \in OpsOf({"delete", "rmd"}) : ~calls[k].ok

\* C9: an upload is directly preceded by the successful mkd of each ancestor directory of
\* the file, outermost first, and by no mkd when the file is in the root; when the upload
\* is issued every ancestor directory exists on the remote.
C9_ParentsBeforeUpload ==
    /\ \A k \in OpsOf({"stor"}) :
        LET anc == AncestorsOf(RelOfAbs(config, calls[k].path))
            n == Len(anc)
        IN  /\ k > n
            /\ \A m \in 1..n :
                calls[k - n + m - 1] = Ev("mkd", Join(config.target_directory, anc[m]), TRUE)
            /\ (k - n - 1 >= 1) => calls[k - n - 1].op # "mkd"
    /\ (/\ pc = "sync_add"
        /\ add_i <= Len(add)
        /\ ~IsDir(local, add[add_i].rel_path)
        /\ mk_j = Len(SyncAddDirParents(config, add[add_i].rel_path)))
            => \A d \in Elems(AncestorsOf(add[add_i].rel_path)) : IsDir(remote, d)

\* C9 witness: a/a/a was uploaded after mkd a and mkd a/a, and the run completed.
C9_Witness ==
    /\ pc = "done"
    /\ \E k \in OpsOf({"stor"}) :
        /\ calls[k].ok
        /\ Len(AncestorsOf(RelOfAbs(config, calls[k].path))) = 2
    /\ IsFile(remote, Join(NameA, Join(NameA, NameA)))

\* C10: both reports, and the prompt, issued and answered, come before the first delete or
\* rmd; once the delta is reported, the prompt was issued if and only if the remove list
\* computed by the delta step is not empty; a prompt that was not answered is the last event
\* of the run, which ends without any delete or rmd.
C10_ConfirmationGate ==
    /\ \A k \in OpsOf({"delete", "rmd"}) :
        /\ \E i \in OpsOf({"report_add"}) : i < k
        /\ \E i \in OpsOf({"report_remove"}) : i < k
        /\ \E i \in OpsOf({"prompt_continue"}) : i < k /\ calls[i].ok
    /\ OpsOf({"report_remove"}) # {} =>
        /\ OpsOf({"report_add"}) # {}
        /\ (_calculate_delta(source_paths, target_paths_converted).delete = <<>>)
                <=> (OpsOf({"prompt_continue"}) = {})
    /\ remove # <<>> => \E i \in OpsOf({"prompt_continue"}) : calls[i].ok
    /\ \A i \in OpsOf({"prompt_continue"}) :
        ~calls[i].ok =>
            /\ i = Len(calls)
            /\ pc = "raised"
            /\ remove = <<>>
            /\ OpsOf({"delete", "rmd", "mkd", "stor", "quit"}) = {}

\* C10 witness: a completed run that reported, prompted, was answered and then deleted.
C10_Witness ==
    /\ \E i \in OpsOf({"prompt_continue"}) :
        /\ calls[i].ok
        /\ \E k \in OpsOf({"delete", "rmd"}) : i < k /\ calls[k].ok
    /\ remove # <<>>
    /\ pc = "done"

\* C11: a failed listing call, at the root or below, is the last call of the run: main is
\* left by the exception, no list is flattened, no delta is computed or reported and no
\* delete, rmd, mkd or upload is invoked.
C11_ListingFailureFatal ==
    \A k \in OpsOf({"mlsd"}) :
        ~calls[k].ok =>
            /\ k = Len(calls)
            /\ pc = "raised"
            /\ exit_code = 1
            /\ target_paths = <<>>
            /\ target_paths_converted = <<>>
            /\ add = <<>>
            /\ remove = <<>>
            /\ OpsOf({"report_add", "report_remove", "prompt_continue", "delete", "rmd", "mkd",
                      "stor", "quit"}) = {}

\* C11 witness: the listing of a directory two levels below the root failed after the
\* listings above it succeeded, with remote entries the local tree does not have.
C11_Witness ==
    /\ pc = "raised"
    /\ Len(calls) >= 3
    /\ calls[Len(calls)] = Ev("mlsd", Join(TARGET_DIRECTORY, Join(NameA, NameA)), FALSE)
    /\ \E k \in OpsOf({"mlsd"}) : calls[k] = Ev("mlsd", TARGET_DIRECTORY, TRUE)
    /\ local = {}

\* a file that _list_source does not hide lies below the directory d, at any depth
HasListedFileBelow(fs, d) ==
    \E n \in fs :
        /\ n.kind = "file"
        /\ ~StartsWithDot(Stem(BaseName(n.path)))
        /\ Len(n.path) > Len(d) + 1
        /\ SubSeq(n.path, 1, Len(d) + 1) = d \o <<Slash>>

\* C12: no entry of the local flat list is a directory without a file below it; a directory
\* with no children, with empty directories only or with hidden files only is not listed.
C12_NoEmptyDirectoryListed ==
    pc # "list_source" =>
        \A i \in 1..Len(source_paths) :
            source_paths[i].path_type = "directory"
                => HasListedFileBelow(local, source_paths[i].rel_path)

\* the canonical flat representation of a tree: one entry per file and per directory
CanonicalEntries(fs) ==
    {[path_type |-> IF n.kind = "dir" THEN "directory" ELSE "file",
      rel_path |-> n.path,
      size |-> IF n.kind = "dir" THEN DIR_SIZE ELSE n.size] : n \in fs}

\* the (kind, path, size) of the entries of a flat list
EntriesOf(list) ==
    {[path_type |-> list[i].path_type, rel_path |-> list[i].rel_path, size |-> list[i].size] :
        i \in 1..Len(list)}

\* C13: the nested structure of the root holds the root's files under 'files' and one key
\* per subdirectory, and the flat list holds exactly one entry per remote file and per
\* remote directory, with the path from the root and the listed size, no path twice; an
\* empty root gives {} and [].
C13_FlatteningCanonical ==
    pc = "calculate_delta" =>
        /\ EntriesOf(target_paths_converted) = CanonicalEntries(remote)
        /\ Len(target_paths_converted) = Cardinality(remote)
        /\ UniquePaths(target_paths_converted)
        /\ remote = {} => (target_paths = EmptyDict /\ target_paths_converted = <<>>)
        /\ remote # {} =>
            /\ \E i \in 1..Len(target_paths) :
                /\ target_paths[i].k = NameFiles
                /\ target_paths[i].t = "list"
                /\ {e.rel_path : e \in Elems(target_paths[i].v)}
                        = {n.path : n \in {c \in Children(remote, EmptyStr) : c.kind = "file"}}
            /\ {target_paths[i].k : i \in 1..Len(target_paths)} \ {NameFiles}
                    = {n.path : n \in {c \in Children(remote, EmptyStr) : c.kind = "dir"}} \ {NameFiles}

\* the weight of the files uploaded by the first n calls of the run, in thousandths of a byte
RECURSIVE UploadedWeight(_)
UploadedWeight(n) ==
    IF n = 0 THEN 0
    ELSE UploadedWeight(n - 1)
         + (IF calls[n].op = "stor" /\ calls[n].ok
            THEN (IF NodeAt(local, RelOfAbs(config, calls[n].path)).size = 0
                  THEN EMPTY_FILE_WEIGHT
                  ELSE NodeAt(local, RelOfAbs(config, calls[n].path)).size * 1000)
            ELSE 0)

\* C14: the byte total of _sync_add is the sum of the sizes of the uploaded files, an empty
\* file counted with the token weight, and main ends with a non-zero status only if a
\* remote call failed: a run whose calls all succeeded ends with status 0.
C14_ByteTotalSignalsSuccess ==
    /\ bytes_transferred = UploadedWeight(Len(calls))
    /\ exit_code = 1 => ~AllCallsOk

\* C15: the session is opened once (a run left at the prompt for an empty source opens
\* none); every remote call lies after the open and before the close; on every path on
\* which main returns with the session open, it was closed once.
C15_SessionOpenedAndClosedOnce ==
    /\ Cardinality(OpsOf({"login"})) <= 1
    /\ (pc \notin {"list_source", "login"} /\ \A i \in OpsOf({"prompt_empty"}) : calls[i].ok)
            => Cardinality(OpsOf({"login"})) = 1
    /\ (\E i \in OpsOf({"prompt_empty"}) : ~calls[i].ok) => OpsOf({"login"}) = {}
    /\ \A k \in OpsOf({"mlsd", "delete", "rmd", "mkd", "stor", "quit"}) :
            \E i \in OpsOf({"login"}) : i < k /\ calls[i].ok
    /\ \A q \in OpsOf({"quit"}) : q = Len(calls)
    /\ pc \in {"done", "exit"} => Cardinality(OpsOf({"quit"})) = 1

\* C16: enumerating and flattening a remote tree ends successfully for every nesting depth:
\* the traversal never stops with a RecursionError.
C16_TraversalToleratesDepth ==
    pc # "RecursionError"

====
